---- MODULE Spec2Model ----
(***************************************************************************)
(* Model of the tata messaging core:                                       *)
(*   - PrivateChatHandler (core/src/network/private_chat/handler.rs)       *)
(*   - the FFI bridge start_network / send_message (core/src/ffi.rs)       *)
(***************************************************************************)
EXTENDS Integers, Sequences, FiniteSets, TLC

(***************************************************************************)
(* Program constants                                                       *)
(***************************************************************************)
INITIAL_RETRY == 1
RETRY_EXP == 2
MAX_RETRY == 120
CHANNEL_BUFFER_SIZE == 10
\* ffi.rs:73: the one Sender of the command channel, kept in EVENTS_SENDER
NumSenders == 1

(***************************************************************************)
(* Bounds of the model                                                     *)
(***************************************************************************)
MaxSends == 2
MaxFaults == 2
MaxFrames == 3
MaxFailures == 8
MaxCalls == 12
MaxOdd == 2
MaxEvents == 3
MaxSize == 3
MaxPushes == 5

Peers == {"A", "B"}
Other(p) == IF p = "A" THEN "B" ELSE "A"
Timestamps == {1, 2}
Texts == {"hi", "yo"}

\* PlainTextMessage { to, timestamp, text }
PlainTextMessage == [to : Peers, timestamp : Timestamps, text : Texts]

\* threads of the host that call send_message; the node they run on
Callers == {"t1", "t2"}
Local == "A"

\* a thread that is not inside send_message
Idle == [pc |-> "idle", ticket |-> 0, to_peer_id |-> <<>>, message |-> <<>>,
         timestamp |-> 0]

\* Option<T> as a sequence of length 0 or 1
None == <<>>
Some(x) == <<x>>

(***************************************************************************)
(* serde_json::to_vec / serde_json::from_slice on PlainTextMessage.        *)
(* A frame payload is a sequence of tokens; a well-formed payload is the   *)
(* object {to, timestamp, text}.                                           *)
(***************************************************************************)
to_vec(m) == <<"{", "to", m.to, "timestamp", "text", m.text, "}", m.timestamp>>

WellFormed(bytes) ==
    /\ Len(bytes) = 8
    /\ bytes[1] = "{" /\ bytes[2] = "to" /\ bytes[4] = "timestamp"
    /\ bytes[5] = "text" /\ bytes[7] = "}"
    /\ bytes[3] \in Peers /\ bytes[6] \in Texts /\ bytes[8] \in Timestamps

from_slice(bytes) ==
    IF WellFormed(bytes)
    THEN Some([to |-> bytes[3], timestamp |-> bytes[8], text |-> bytes[6]])
    ELSE None

\* payloads a peer can put on the wire that are not messages
Garbage == { <<"{", "to">>, <<>> }

\* an item yielded by the framed stream: Ok(bytes) or Err(io error)
OkItem(bytes) == [ok |-> TRUE, bytes |-> bytes]
ErrItem == [ok |-> FALSE, bytes |-> <<>>]

(***************************************************************************)
(* Events returned by poll (ProtocolsHandlerEvent::Custom(Event::..))      *)
(***************************************************************************)
Pending == [kind |-> "Pending", id |-> 0, msg |-> None, err |-> ""]
SentPlainTextMessage(t) == [kind |-> "Sent", id |-> t, msg |-> None, err |-> ""]
ReceivedPlainTextMessage(m) ==
    [kind |-> "Received", id |-> 0, msg |-> Some(m), err |-> ""]
ErrorEvent(e) == [kind |-> "Error", id |-> 0, msg |-> None, err |-> e]

VARIABLES
    \* PrivateChatHandler fields, one handler per peer
    stream,                    \* Option<Framed<..>>: TRUE = Some
    pending_metadata,          \* Option<HandshakeMetadata>
    pending_sending_messages,  \* VecDeque<PlainTextMessage>
    outgoing_messages,         \* HashMap<u64, send future>
    errors,                    \* VecDeque<ErrorMessage>, index 1 = front
    retry,                     \* Option<Delay>
    retry_value,               \* Duration (seconds)
    \* the substream between the peers
    wire,                      \* wire[p]: items readable by p's stream
    ended,                     \* ended[p]: p's inbound stream reports end
    broken,                    \* broken[p]: writes of p fail with io error
    \* observations
    ret,                       \* operation just executed and what it returned
    closed,                    \* poll has seen the stream report its end
    nsends,                    \* send calls, per handler and timestamp
    nsent,                     \* Sent events emitted, per handler and timestamp
    overwritten,               \* in-flight entries replaced, per timestamp
    nfail,                     \* dial-upgrade failures injected
    budget,                    \* remaining environment inputs
    \* ffi.rs
    EVENTS_SENDER,             \* OnceCell: TRUE once the sender is installed
    mutex,                     \* the Mutex around the sender: holder or "free"
    in_events,                 \* command channel in_events_tx -> in_events_rx
    out_events,                \* outward event stream of the swarm
    callback_log,              \* byte arrays handed to the native callback
    loop,                      \* position of the spawned poll_fn task
    callers,                   \* position of each thread inside send_message
    tickets,                   \* number of lock acquisitions so far
    rejected,                  \* tickets of calls that returned false
    dropped,                   \* tickets of calls whose try_send failed
    forwarded,                 \* tickets passed to the handler, in order
    arrived,                   \* events put on out_events so far
    heap,                      \* ByteArray arguments: times their storage was
                               \* released, and what the host did with them
    \* ring_vec.rs
    ring,                      \* a RingVec: size, pos, data; panicked if a
                               \* call on it panicked
    pushed                     \* the elements passed to push, in call order

hvars == <<stream, pending_metadata, pending_sending_messages,
           outgoing_messages, errors, retry, retry_value>>
evars == <<wire, ended, broken>>
cvars == <<closed, nsends, nsent, overwritten, nfail>>
bvars == <<EVENTS_SENDER, mutex, in_events, out_events, callback_log, loop,
           callers, tickets, rejected, dropped, forwarded, arrived, heap>>
rvars == <<ring, pushed>>
vars == <<hvars, evars, ret, cvars, budget, bvars, rvars>>

\* HandshakeMetadata received from the remote during negotiation
local_metadata(p) == [peer |-> p]

\* ret after an operation that is not a poll call
NoRet == [who |-> "", event |-> Pending]
Returned(p, event) == [who |-> p, event |-> event]

(***************************************************************************)
(* PrivateChatHandler::new                                                 *)
(***************************************************************************)
new ==
    /\ stream = [p \in Peers |-> FALSE]
    /\ pending_metadata = [p \in Peers |-> None]
    /\ pending_sending_messages = [p \in Peers |-> <<>>]
    /\ outgoing_messages = [p \in Peers |-> <<>>]
    /\ errors = [p \in Peers |-> <<>>]
    /\ retry = [p \in Peers |-> None]
    /\ retry_value = [p \in Peers |-> INITIAL_RETRY]

(***************************************************************************)
(* ring_vec.rs: RingVec<T>; data[k] is the vector element with index k - 1 *)
(***************************************************************************)
Elements == {"x", "y"}

\* ring_vec.rs:12-18
RingVec_new(size) == [size |-> size, pos |-> 0, data |-> <<>>,
                      panicked |-> FALSE]

\* ring_vec.rs:22-29; `self.pos % self.size` panics when size is 0, after
\* pos was incremented
push(r, elem) ==
    IF Len(r.data) # r.size
    THEN [r EXCEPT !.pos = @ + 1, !.data = Append(@, elem)]
    ELSE IF r.size = 0
    THEN [r EXCEPT !.pos = @ + 1, !.panicked = TRUE]
    ELSE [r EXCEPT !.pos = @ + 1, !.data[((r.pos + 1) % r.size) + 1] = elem]

\* ring_vec.rs:33-42: None, Some(element), or "panic" when the expect fails
get(r, pos) ==
    IF pos >= r.pos \/ pos + r.size < r.pos
    THEN None
    ELSE IF (pos % r.size) + 1 \in DOMAIN r.data
    THEN Some(r.data[(pos % r.size) + 1])
    ELSE <<"panic">>

\* the ByteArray arguments of the latest start_network call and of the
\* latest send_message call of each thread: number of times their storage
\* was released (Box::from_raw in ByteArray::free); `host` tells whether
\* the host has passed secret_array to start_network ("passed") and to
\* free_array afterwards ("freed"); `damaged` is set when the allocator was
\* given a pointer it had already freed
NoArrays == [secret_array |-> 0, name |-> 0,
             to_peer_id |-> [c \in Callers |-> 0],
             message |-> [c \in Callers |-> 0],
             host |-> "none", damaged |-> FALSE]

InitEnv ==
    /\ wire = [p \in Peers |-> <<>>]
    /\ ended = [p \in Peers |-> FALSE]
    /\ broken = [p \in Peers |-> FALSE]
    /\ ret = NoRet
    /\ closed = [p \in Peers |-> FALSE]
    /\ nsends = [p \in Peers |-> [t \in Timestamps |-> 0]]
    /\ nsent = [p \in Peers |-> [t \in Timestamps |-> 0]]
    /\ overwritten = [p \in Peers |-> [t \in Timestamps |-> 0]]
    /\ nfail = [p \in Peers |-> 0]
    /\ EVENTS_SENDER = FALSE
    /\ mutex = "free"
    /\ in_events = <<>>
    /\ out_events = <<>>
    /\ callback_log = <<>>
    /\ loop = "none"
    /\ callers = [c \in Callers |-> Idle]
    /\ tickets = 0
    /\ rejected = {}
    /\ dropped = {}
    /\ forwarded = <<>>
    /\ arrived = 0
    /\ heap = NoArrays
    /\ ring = RingVec_new(1)
    /\ pushed = <<>>

(***************************************************************************)
(* Small helpers on sequences and maps                                     *)
(***************************************************************************)
Front(s) == SubSeq(s, 1, Len(s) - 1)
Last(s) == s[Len(s)]
\* as Insert, but a key that is present keeps its value
InsertAbsent(map, k, v) == map @@ (k :> v)
\* HashMap::insert
Insert(map, k, v) == (k :> v) @@ map
Remove(map, k) == [x \in (DOMAIN map) \ {k} |-> map[x]]
Orders(S) == { o \in [1..Cardinality(S) -> S] :
                 \A i, j \in DOMAIN o : i # j => o[i] # o[j] }

Spend(what, p) == /\ budget[what][p] > 0
                  /\ budget' = [budget EXCEPT ![what][p] = @ - 1]

(***************************************************************************)
(* inject_fully_negotiated_inbound / inject_fully_negotiated_outbound      *)
(***************************************************************************)
\* as inject_fully_negotiated_inbound, but a completed inbound negotiation
\* also starts the backoff over
inject_fully_negotiated_inbound_reset(p) ==
    /\ stream' = [stream EXCEPT ![p] = TRUE]
    /\ pending_metadata' =
          [pending_metadata EXCEPT ![p] = Some(local_metadata(Other(p)))]
    /\ retry' = [retry EXCEPT ![p] = None]
    /\ retry_value' = [retry_value EXCEPT ![p] = INITIAL_RETRY]
    /\ ret' = NoRet
    /\ UNCHANGED <<pending_sending_messages, outgoing_messages, errors,
                   evars, cvars, budget>>

\* handler.rs:52-60
inject_fully_negotiated_inbound(p) ==
    /\ stream' = [stream EXCEPT ![p] = TRUE]
    /\ pending_metadata' =
          [pending_metadata EXCEPT ![p] = Some(local_metadata(Other(p)))]
    /\ ret' = NoRet
    /\ UNCHANGED <<pending_sending_messages, outgoing_messages, errors,
                   retry, retry_value, evars, cvars, budget>>

\* as inject_fully_negotiated_outbound, but a completed outbound negotiation
\* also forgets the failures that were not reported yet
inject_fully_negotiated_outbound_fresh(p) ==
    /\ stream' = [stream EXCEPT ![p] = TRUE]
    /\ pending_metadata' =
          [pending_metadata EXCEPT ![p] = Some(local_metadata(Other(p)))]
    /\ errors' = [errors EXCEPT ![p] = <<>>]
    /\ ret' = NoRet
    /\ UNCHANGED <<pending_sending_messages, outgoing_messages,
                   retry, retry_value, evars, cvars, budget>>

\* handler.rs:62-70
inject_fully_negotiated_outbound(p) ==
    /\ stream' = [stream EXCEPT ![p] = TRUE]
    /\ pending_metadata' =
          [pending_metadata EXCEPT ![p] = Some(local_metadata(Other(p)))]
    /\ ret' = NoRet
    /\ UNCHANGED <<pending_sending_messages, outgoing_messages, errors,
                   retry, retry_value, evars, cvars, budget>>

(***************************************************************************)
(* inject_dial_upgrade_error                                               *)
(***************************************************************************)
Delay(d) == [delay |-> d, fired |-> FALSE]

\* as backoff_after, but the timer stays armed when the delay is reset
backoff_after_keep_timer(rv) ==
    IF rv * RETRY_EXP > MAX_RETRY
    THEN [retry |-> Some(Delay(rv)), retry_value |-> INITIAL_RETRY]
    ELSE [retry |-> Some(Delay(rv)), retry_value |-> rv * RETRY_EXP]

\* handler.rs:78-84: the (retry, retry_value) pair the handler leaves behind
backoff_after(rv) ==
    IF rv * RETRY_EXP > MAX_RETRY
    THEN [retry |-> None, retry_value |-> INITIAL_RETRY]
    ELSE [retry |-> Some(Delay(rv)), retry_value |-> rv * RETRY_EXP]

inject_dial_upgrade_error(p) ==
    /\ Spend("faults", p)
    /\ stream' = [stream EXCEPT ![p] = FALSE]
    /\ errors' = [errors EXCEPT ![p] = <<"Unreachable">> \o @]
    /\ retry' = [retry EXCEPT ![p] = backoff_after(retry_value[p]).retry]
    /\ retry_value' =
          [retry_value EXCEPT ![p] = backoff_after(retry_value[p]).retry_value]
    /\ nfail' = [nfail EXCEPT ![p] = @ + 1]
    /\ ret' = NoRet
    /\ UNCHANGED <<pending_metadata, pending_sending_messages,
                   outgoing_messages, evars,
                   closed, nsends, nsent, overwritten>>

\* the Delay stored in retry reaches its deadline (nothing polls it)
TimerFire(p) ==
    /\ retry[p] # None
    /\ ~ retry[p][1].fired
    /\ retry' = [retry EXCEPT ![p] = Some([@[1] EXCEPT !.fired = TRUE])]
    /\ ret' = NoRet
    /\ UNCHANGED <<stream, pending_metadata, pending_sending_messages,
                   outgoing_messages, errors, retry_value, evars, cvars,
                   budget>>

(***************************************************************************)
(* PrivateChatHandler::send                                                *)
(***************************************************************************)
\* as send, but the message goes to the front of the queue
send_front(p, message) ==
    /\ pending_sending_messages' =
          [pending_sending_messages EXCEPT ![p] = <<message>> \o @]
    /\ nsends' = [nsends EXCEPT ![p][message.timestamp] = @ + 1]
    /\ UNCHANGED <<stream, pending_metadata, outgoing_messages, errors,
                   retry, retry_value, evars,
                   closed, nsent, overwritten, nfail>>

\* handler.rs:170-172
send(p, message) ==
    /\ pending_sending_messages' =
          [pending_sending_messages EXCEPT ![p] = Append(@, message)]
    /\ nsends' = [nsends EXCEPT ![p][message.timestamp] = @ + 1]
    /\ UNCHANGED <<stream, pending_metadata, outgoing_messages, errors,
                   retry, retry_value, evars,
                   closed, nsent, overwritten, nfail>>

\* the owner of the handler calls send
CallSend(p, message) ==
    /\ Spend("sends", p)
    /\ send(p, message)
    /\ ret' = NoRet

(***************************************************************************)
(* PrivateChatHandler::poll                                                *)
(***************************************************************************)
\* stream.send(bytes): the boxed future stored in outgoing_messages.
\* st = "new": not yet polled; "fed": payload handed to the sink, not flushed
SendFuture(message) == [msg |-> message, st |-> "new"]

\* as poll_unpin, but a future polled for the first time may report
\* completion without its payload having been handed to the sink
poll_unpin_unwritten(future, brk) ==
    { [st |-> future.st, out |-> <<>>, ready |-> FALSE, err |-> FALSE] }
    \cup (IF brk
          THEN { [st |-> future.st, out |-> <<>>, ready |-> TRUE,
                  err |-> TRUE] }
          ELSE IF future.st = "new"
          THEN { [st |-> "fed", out |-> <<OkItem(to_vec(future.msg))>>,
                  ready |-> FALSE, err |-> FALSE],
                 [st |-> "fed", out |-> <<>>, ready |-> TRUE,
                  err |-> FALSE] }
          ELSE { [st |-> "fed", out |-> <<>>, ready |-> TRUE,
                  err |-> FALSE] })

\* outcomes of one future.poll_unpin(cx): [st, out, ready, err]
\* out = frames the poll hands to the wire; ready with err = Ready(Err(e)),
\* ready without err = Ready(Ok(()))
poll_unpin(future, brk) ==
    { [st |-> future.st, out |-> <<>>, ready |-> FALSE, err |-> FALSE] }
    \cup (IF brk
          THEN { [st |-> future.st, out |-> <<>>, ready |-> TRUE,
                  err |-> TRUE] }
          ELSE IF future.st = "new"
          THEN { [st |-> "fed", out |-> <<OkItem(to_vec(future.msg))>>,
                  ready |-> FALSE, err |-> FALSE],
                 [st |-> "fed", out |-> <<OkItem(to_vec(future.msg))>>,
                  ready |-> TRUE, err |-> FALSE] }
          ELSE { [st |-> "fed", out |-> <<>>, ready |-> TRUE,
                  err |-> FALSE] })

\* as completed, but only Ready(Ok(())) counts as completion
completed_ok(r) == r.ready /\ ~ r.err

\* handler.rs:104-106: the match on the result of poll_unpin; the arm
\* Poll::Ready(_) takes Ok and Err alike
completed(r) == r.ready

\* handler.rs:101-115: poll the in-flight futures in key order `order`;
\* the first one that is ready is removed and reported.
\* Result: [og, out, sent] with sent = Some(timestamp) or None
RECURSIVE scan_outgoing(_, _, _, _)
scan_outgoing(order, og, out, brk) ==
    IF order = <<>>
    THEN { [og |-> og, out |-> out, sent |-> None] }
    ELSE LET timestamp == Head(order) IN
         UNION { IF completed(r)
                 THEN { [og |-> Remove(og, timestamp), out |-> out \o r.out,
                         sent |-> Some(timestamp)] }
                 ELSE scan_outgoing(Tail(order),
                         [og EXCEPT ![timestamp].st = r.st],
                         out \o r.out, brk)
                 : r \in poll_unpin(og[timestamp], brk) }

\* handler.rs:116-122: pending_sending_messages.drain(..) into the map
RECURSIVE drain_pending(_, _)
drain_pending(queue, og) ==
    IF queue = <<>> THEN og
    ELSE drain_pending(Tail(queue),
            Insert(og, Head(queue).timestamp, SendFuture(Head(queue))))

\* number of entries with key t replaced by the inserts of drain_pending
RECURSIVE replaced_by_drain(_, _, _)
replaced_by_drain(queue, og, t) ==
    IF queue = <<>> THEN 0
    ELSE (IF Head(queue).timestamp = t /\ t \in DOMAIN og THEN 1 ELSE 0)
         + replaced_by_drain(Tail(queue),
              Insert(og, Head(queue).timestamp, SendFuture(Head(queue))), t)

\* as poll_next, but an io error of the stream is reported like a payload
\* that fails to parse
poll_next_as_parse(inbound, isEnded) ==
    IF inbound = <<>>
    THEN [event |-> Pending, taken |-> 0, none |-> isEnded]
    ELSE IF Head(inbound).ok /\ from_slice(Head(inbound).bytes) # None
    THEN [event |-> ReceivedPlainTextMessage(from_slice(Head(inbound).bytes)[1]),
          taken |-> 1, none |-> FALSE]
    ELSE [event |-> ErrorEvent("Parse"), taken |-> 1, none |-> FALSE]

\* as poll_next, but a payload that fails to parse also discards the frame
\* behind it
poll_next_skipping(inbound, isEnded) ==
    IF inbound = <<>>
    THEN [event |-> Pending, taken |-> 0, none |-> isEnded]
    ELSE IF ~ Head(inbound).ok
    THEN [event |-> ErrorEvent("Network"), taken |-> 1, none |-> FALSE]
    ELSE IF from_slice(Head(inbound).bytes) # None
    THEN [event |-> ReceivedPlainTextMessage(from_slice(Head(inbound).bytes)[1]),
          taken |-> 1, none |-> FALSE]
    ELSE [event |-> ErrorEvent("Parse"), taken |-> IF Len(inbound) > 1 THEN 2 ELSE 1,
          none |-> FALSE]

\* handler.rs:123-150: stream.poll_next_unpin(cx) and the match on it.
\* Result: [event, taken, none]: the event poll returns, the number of
\* items read, and whether the stream yielded Poll::Ready(None)
poll_next(inbound, isEnded) ==
    IF inbound = <<>>
    THEN [event |-> Pending, taken |-> 0, none |-> isEnded]
    ELSE IF ~ Head(inbound).ok
    THEN [event |-> ErrorEvent("Network"), taken |-> 1, none |-> FALSE]
    ELSE IF from_slice(Head(inbound).bytes) # None
    THEN [event |-> ReceivedPlainTextMessage(from_slice(Head(inbound).bytes)[1]),
          taken |-> 1, none |-> FALSE]
    ELSE [event |-> ErrorEvent("Parse"), taken |-> 1, none |-> FALSE]

\* as poll_errors, but one event reports every queued error
poll_errors_all(p) ==
    /\ errors[p] # <<>>
    /\ errors' = [errors EXCEPT ![p] = <<>>]
    /\ ret' = Returned(p, ErrorEvent("Unreachable"))
    /\ UNCHANGED <<stream, pending_metadata, pending_sending_messages,
                   outgoing_messages, retry, retry_value, evars, cvars,
                   budget>>

\* handler.rs:95-99
poll_errors(p) ==
    /\ errors[p] # <<>>
    /\ errors' = [errors EXCEPT ![p] = Front(@)]
    /\ ret' = Returned(p, ErrorEvent("Unreachable"))
    /\ UNCHANGED <<stream, pending_metadata, pending_sending_messages,
                   outgoing_messages, retry, retry_value, evars, cvars,
                   budget>>

\* handler.rs:101-150: the body of `if let Some(stream) = self.stream`
poll_open(p) ==
    /\ \E order \in Orders(DOMAIN outgoing_messages[p]) :
       \E s \in scan_outgoing(order, outgoing_messages[p], <<>>, broken[p]) :
          IF s.sent # None
          THEN /\ outgoing_messages' = [outgoing_messages EXCEPT ![p] = s.og]
               /\ wire' = [wire EXCEPT ![Other(p)] = @ \o s.out]
               /\ nsent' = [nsent EXCEPT ![p][s.sent[1]] = @ + 1]
               /\ ret' = Returned(p, SentPlainTextMessage(s.sent[1]))
               /\ UNCHANGED <<pending_sending_messages, closed, overwritten>>
          ELSE LET r == poll_next(wire[p], ended[p]) IN
               /\ outgoing_messages' = [outgoing_messages EXCEPT ![p] =
                     drain_pending(pending_sending_messages[p], s.og)]
               /\ overwritten' = [overwritten EXCEPT ![p] =
                     [t \in Timestamps |-> @[t] +
                        replaced_by_drain(pending_sending_messages[p], s.og, t)]]
               /\ pending_sending_messages' =
                     [pending_sending_messages EXCEPT ![p] = <<>>]
               /\ wire' = [wire EXCEPT
                     ![p] = SubSeq(@, r.taken + 1, Len(@)),
                     ![Other(p)] = @ \o s.out]
               /\ closed' = [closed EXCEPT ![p] = @ \/ r.none]
               /\ ret' = Returned(p, r.event)
               /\ UNCHANGED nsent
    /\ UNCHANGED <<stream, pending_metadata, errors, retry, retry_value,
                   ended, broken, nsends, nfail, budget>>

\* as poll_stream, but entered whether or not an error is pending
poll_stream_first(p) ==
    /\ stream[p]
    /\ poll_open(p)

\* handler.rs:100-151, reached when no error is pending
poll_stream(p) ==
    /\ errors[p] = <<>>
    /\ stream[p]
    /\ poll_open(p)

\* handler.rs:100,152: no stream, nothing to do
poll_idle(p) ==
    /\ errors[p] = <<>>
    /\ ~ stream[p]
    /\ ret' = Returned(p, Pending)
    /\ UNCHANGED <<hvars, evars, cvars, budget>>

poll(p) == poll_errors(p) \/ poll_stream(p) \/ poll_idle(p)

(***************************************************************************)
(* The remote end and the transport                                        *)
(***************************************************************************)
\* the remote writes a frame with an arbitrary payload; nothing arrives
\* on a substream after its end
RemoteWrite(p, bytes) ==
    /\ Spend("faults", p)
    /\ ~ ended[p]
    /\ wire' = [wire EXCEPT ![p] = Append(@, OkItem(bytes))]
    /\ ret' = NoRet
    /\ UNCHANGED <<hvars, ended, broken, cvars>>

\* the transport reports an io error to the reader p
IoError(p) ==
    /\ Spend("faults", p)
    /\ ~ ended[p]
    /\ wire' = [wire EXCEPT ![p] = Append(@, ErrItem)]
    /\ ret' = NoRet
    /\ UNCHANGED <<hvars, ended, broken, cvars>>

\* the substream read by p is closed: p reads end of stream after the
\* buffered items, and the writes of the other side fail from now on
StreamEnd(p) ==
    /\ Spend("faults", p)
    /\ ~ ended[p]
    /\ ended' = [ended EXCEPT ![p] = TRUE]
    /\ broken' = [broken EXCEPT ![Other(p)] = TRUE]
    /\ ret' = NoRet
    /\ UNCHANGED <<hvars, wire, cvars>>

(***************************************************************************)
(* ffi.rs: ByteArray arguments and their conversions                       *)
(***************************************************************************)
\* contents of the ByteArray arguments the host passes
PeerIdBuffers == { <<66>>, <<255>> }
TextBuffers == { <<104, 105>>, <<121, 111>>, <<255>> }
NameBuffers == { <<110>>, <<255>> }

Utf8(bytes) ==
    CASE bytes = <<65>> -> "A"
      [] bytes = <<66>> -> "B"
      [] bytes = <<104, 105>> -> "hi"
      [] bytes = <<121, 111>> -> "yo"
      [] OTHER -> "n"

\* TryInto<String> for ByteArray: String::from_utf8
try_into_string(bytes) ==
    IF \A i \in DOMAIN bytes : bytes[i] < 128 THEN Some(Utf8(bytes)) ELSE None

\* return value of an extern "C" fn -> bool
BoolRet(b) == [kind |-> IF b THEN "true" ELSE "false", id |-> 0,
               msg |-> None, err |-> ""]

\* the arguments most calls use; the others are drawn from budget "odd"
PlainCall(to_peer_id, message, timestamp) ==
    to_peer_id = <<66>> /\ message = <<104, 105>> /\ timestamp = 1

(***************************************************************************)
(* start_network                                                           *)
(***************************************************************************)
start_network(name, secret_ok, swarm_ok) ==
    /\ loop = "none"
    /\ IF try_into_string(name) = None \/ ~ secret_ok \/ ~ swarm_ok
       THEN /\ ret' = Returned("host", BoolRet(FALSE))
            /\ UNCHANGED <<EVENTS_SENDER, in_events, loop>>
       ELSE /\ in_events' = <<>>
            /\ EVENTS_SENDER' = TRUE
            /\ loop' = "a"
            /\ ret' = Returned("host", BoolRet(TRUE))
    \* ffi.rs:43: name.try_into() releases name; ffi.rs:51: secret_array.into()
    \* releases secret_array, and is not reached when the name is refused
    /\ heap' = [heap EXCEPT
          !.name = 1,
          !.secret_array = IF try_into_string(name) = None THEN 0 ELSE 1,
          !.host = "passed"]
    /\ UNCHANGED <<hvars, evars, cvars, budget, mutex, out_events,
                   callback_log, callers, tickets, rejected, dropped,
                   forwarded, arrived>>

(***************************************************************************)
(* free_array                                                              *)
(***************************************************************************)
\* ffi.rs:117-121: array.free(). Box::from_raw on storage that was released
\* before is undefined behaviour: the allocator may or may not be damaged
free_array(array) ==
    /\ \E d \in IF heap[array] > 0 THEN BOOLEAN ELSE {FALSE} :
          heap' = [heap EXCEPT ![array] = @ + 1,
                               !.damaged = @ \/ d,
                               !.host = "freed"]
    /\ ret' = NoRet
    /\ UNCHANGED <<hvars, evars, cvars, budget, EVENTS_SENDER, mutex,
                   in_events, out_events, callback_log, loop, callers,
                   tickets, rejected, dropped, forwarded, arrived>>

(***************************************************************************)
(* The task spawned by start_network: poll_fn(move |cx| { .. })            *)
(***************************************************************************)
\* an event of the outward stream
OutEvent(tag, n, ser) == [tag |-> tag, n |-> n, ser |-> ser]
EventTags == {"PlainTextMessage", "PeerDiscovered"}

\* as try_into_bytes, but every event yields bytes
try_into_bytes_total(event) == Some([tag |-> event.tag, n |-> event.n])

\* event.try_into() -> ByteArray
try_into_bytes(event) ==
    IF event.ser THEN Some([tag |-> event.tag, n |-> event.n]) ELSE None

\* ffi.rs:78-88: one iteration of the first loop
loop_out_events ==
    /\ loop = "a"
    /\ IF out_events # <<>>
       THEN /\ out_events' = Tail(out_events)
            /\ callback_log' =
                  IF try_into_bytes(Head(out_events)) # None
                  THEN Append(callback_log, try_into_bytes(Head(out_events))[1])
                  ELSE callback_log
            /\ loop' = "a"
       ELSE /\ loop' = "b"
            /\ UNCHANGED <<out_events, callback_log>>
    /\ ret' = NoRet
    /\ UNCHANGED <<hvars, evars, cvars, budget, EVENTS_SENDER, mutex,
                   in_events, callers, tickets, rejected, dropped, forwarded,
                   arrived, heap>>

\* swarm.private_chat.send_message(message): hands the message to the
\* chat handler of the connection
private_chat_send_message(message) == send(Local, message)

\* as loop_in_events, but the task ends when the command channel has
\* nothing ready
loop_in_events_ending ==
    /\ loop = "b"
    /\ IF in_events # <<>>
       THEN /\ in_events' = Tail(in_events)
            /\ private_chat_send_message(Head(in_events).msg)
            /\ forwarded' = Append(forwarded, Head(in_events).ticket)
            /\ loop' = "b"
       ELSE /\ loop' = "done"
            /\ UNCHANGED <<hvars, evars, cvars, in_events, forwarded>>
    /\ ret' = NoRet
    /\ UNCHANGED <<budget, EVENTS_SENDER, mutex, out_events, callback_log,
                   callers, tickets, rejected, dropped, arrived, heap>>

\* ffi.rs:89-98: one iteration of the second loop
loop_in_events ==
    /\ loop = "b"
    /\ IF in_events # <<>>
       THEN /\ in_events' = Tail(in_events)
            /\ private_chat_send_message(Head(in_events).msg)
            /\ forwarded' = Append(forwarded, Head(in_events).ticket)
            /\ loop' = "b"
       ELSE /\ loop' = "c"
            /\ UNCHANGED <<hvars, evars, cvars, in_events, forwarded>>
    /\ ret' = NoRet
    /\ UNCHANGED <<budget, EVENTS_SENDER, mutex, out_events, callback_log,
                   callers, tickets, rejected, dropped, arrived, heap>>

\* ffi.rs:99-108: swarm.poll_next_unpin(cx) is not Ready(None); while it
\* runs the swarm may put an event on the outward stream
loop_swarm(events) ==
    /\ loop = "c"
    /\ out_events' = out_events \o events
    /\ arrived' = arrived + Len(events)
    /\ IF events = <<>> THEN UNCHANGED budget ELSE Spend("events", Local)
    /\ loop' = "pending"
    /\ ret' = NoRet
    /\ UNCHANGED <<hvars, evars, cvars, EVENTS_SENDER, mutex, in_events,
                   callback_log, callers, tickets, rejected, dropped,
                   forwarded, heap>>

\* ffi.rs:101-104: the swarm stream has ended
loop_swarm_finished ==
    /\ loop = "c"
    /\ loop' = "done"
    /\ ret' = NoRet
    /\ UNCHANGED <<hvars, evars, cvars, budget, EVENTS_SENDER, mutex,
                   in_events, out_events, callback_log, callers, tickets,
                   rejected, dropped, forwarded, arrived, heap>>

\* the task is woken and polled again
loop_wake ==
    /\ loop = "pending"
    /\ loop' = "a"
    /\ ret' = NoRet
    /\ UNCHANGED <<hvars, evars, cvars, budget, EVENTS_SENDER, mutex,
                   in_events, out_events, callback_log, callers, tickets,
                   rejected, dropped, forwarded, arrived, heap>>

(***************************************************************************)
(* send_message                                                            *)
(***************************************************************************)
\* as try_send_ok, for a channel without a bound
try_send_ok_unbounded(channel) == Len(channel) >= 0

\* futures::channel::mpsc::channel(buffer): a sender may enqueue while at
\* most `buffer` messages are queued, so buffer + 1 fit with one sender
try_send_ok(channel) == Len(channel) < CHANNEL_BUFFER_SIZE + NumSenders

\* as lock_ok, for a lock that does not exclude
lock_ok_shared(c) == mutex \in {"free"} \cup Callers

\* sender_mutex.lock() succeeds for c
lock_ok(c) == mutex = "free"

\* ffi.rs:133-134: the call and EVENTS_SENDER.get()
send_message_get(c, to_peer_id, message, timestamp) ==
    /\ callers[c].pc = "idle"
    /\ budget.calls[Local] > 0
    /\ PlainCall(to_peer_id, message, timestamp) \/ budget.odd[Local] > 0
    /\ budget' = [budget EXCEPT
          !.calls[Local] = @ - 1,
          !.odd[Local] = IF PlainCall(to_peer_id, message, timestamp)
                         THEN @ ELSE @ - 1]
    /\ IF EVENTS_SENDER
       THEN /\ callers' = [callers EXCEPT ![c] =
                  [pc |-> "lock", ticket |-> 0, to_peer_id |-> to_peer_id,
                   message |-> message, timestamp |-> timestamp]]
            /\ ret' = NoRet
       ELSE /\ ret' = Returned(c, BoolRet(FALSE))
            /\ UNCHANGED callers
    \* the thread passes two arrays it has just allocated
    /\ heap' = [heap EXCEPT !.to_peer_id[c] = 0, !.message[c] = 0]
    /\ UNCHANGED <<hvars, evars, cvars, EVENTS_SENDER, mutex, in_events,
                   out_events, callback_log, loop, tickets, rejected,
                   dropped, forwarded, arrived>>

\* ffi.rs:135: sender_mutex.lock()
send_message_lock(c) ==
    /\ callers[c].pc = "lock"
    /\ lock_ok(c)
    /\ mutex' = c
    /\ tickets' = tickets + 1
    /\ callers' = [callers EXCEPT ![c].pc = "locked", ![c].ticket = tickets + 1]
    /\ ret' = NoRet
    /\ UNCHANGED <<hvars, evars, cvars, budget, EVENTS_SENDER, in_events,
                   out_events, callback_log, loop, rejected, dropped,
                   forwarded, arrived, heap>>

\* as send_message_body, but a text that is not UTF-8 is sent as it is
send_message_body_lossy(to_peer_id, message, timestamp, ticket, channel) ==
    IF try_into_string(to_peer_id) = None
    THEN [result |-> FALSE, channel |-> channel, dropped |-> FALSE]
    ELSE LET m == [to |-> try_into_string(to_peer_id)[1],
                   timestamp |-> timestamp,
                   text |-> Utf8(message)] IN
         IF try_send_ok(channel)
         THEN [result |-> TRUE,
               channel |-> Append(channel, [msg |-> m, ticket |-> ticket]),
               dropped |-> FALSE]
         ELSE [result |-> TRUE, channel |-> channel, dropped |-> TRUE]

\* what the body of the critical section does with the channel:
\* [result, channel, dropped]
send_message_body(to_peer_id, message, timestamp, ticket, channel) ==
    IF try_into_string(to_peer_id) = None \/ try_into_string(message) = None
    THEN [result |-> FALSE, channel |-> channel, dropped |-> FALSE]
    ELSE LET m == [to |-> try_into_string(to_peer_id)[1],
                   timestamp |-> timestamp,
                   text |-> try_into_string(message)[1]] IN
         IF try_send_ok(channel)
         THEN [result |-> TRUE,
               channel |-> Append(channel, [msg |-> m, ticket |-> ticket]),
               dropped |-> FALSE]
         ELSE [result |-> TRUE, channel |-> channel, dropped |-> TRUE]

\* ffi.rs:136-158: conversions, try_send and return; the guard is dropped
send_message_locked(c) ==
    /\ callers[c].pc = "locked"
    /\ LET r == send_message_body(callers[c].to_peer_id, callers[c].message,
                                  callers[c].timestamp, callers[c].ticket,
                                  in_events) IN
       /\ in_events' = r.channel
       /\ dropped' = IF r.dropped THEN dropped \cup {callers[c].ticket}
                     ELSE dropped
       /\ rejected' = IF r.result THEN rejected
                      ELSE rejected \cup {callers[c].ticket}
       /\ ret' = Returned(c, BoolRet(r.result))
    /\ mutex' = IF mutex = c THEN "free" ELSE mutex
    /\ callers' = [callers EXCEPT ![c] = Idle]
    \* ffi.rs:136: to_peer_id.try_into() releases to_peer_id; ffi.rs:143:
    \* message.try_into() releases message, and is not reached when the
    \* peer id is refused
    /\ heap' = [heap EXCEPT
          !.to_peer_id[c] = 1,
          !.message[c] = IF try_into_string(callers[c].to_peer_id) = None
                         THEN 0 ELSE 1]
    /\ UNCHANGED <<hvars, evars, cvars, budget, EVENTS_SENDER, out_events,
                   callback_log, loop, tickets, forwarded, arrived>>

(***************************************************************************)
(* Specifications                                                          *)
(***************************************************************************)
Nobody == [p \in Peers |-> 0]
Only(p, n) == [q \in Peers |-> IF q = p THEN n ELSE 0]
NoBudget == [sends |-> Nobody, faults |-> Nobody, calls |-> Nobody,
             odd |-> Nobody, events |-> Nobody]

\* frames the remote end may write
Frames == Garbage \cup { to_vec([to |-> "A", timestamp |-> 1, text |-> "hi"]) }

\* the operations of the handlers in H
Negotiate(H) == /\ \E p \in H : \/ inject_fully_negotiated_inbound(p)
                                \/ inject_fully_negotiated_outbound(p)
                /\ UNCHANGED <<bvars, rvars>>
DialError(H) == (\E p \in H : inject_dial_upgrade_error(p)) /\ UNCHANGED <<bvars, rvars>>
Timer(H) == (\E p \in H : TimerFire(p)) /\ UNCHANGED <<bvars, rvars>>
Send(H) == /\ \E p \in H : \E m \in PlainTextMessage :
                 m.to = Other(p) /\ CallSend(p, m)
           /\ UNCHANGED <<bvars, rvars>>
PollOf(p) == poll(p) /\ UNCHANGED <<bvars, rvars>>
Poll(H) == \E p \in H : PollOf(p)
Remote(H, F) == (\E p \in H : \E f \in F : RemoteWrite(p, f))
                /\ UNCHANGED <<bvars, rvars>>
Fault(H) == (\E p \in H : IoError(p) \/ StreamEnd(p)) /\ UNCHANGED <<bvars, rvars>>

\* Spec: the chat handler A with every input of its environment
Init ==
    /\ new
    /\ InitEnv
    /\ budget = [NoBudget EXCEPT !.sends = Only("A", MaxSends),
                                 !.faults = Only("A", MaxFaults)]

Next == \/ Negotiate({"A"}) \/ DialError({"A"}) \/ Send({"A"})
        \/ Poll({"A"}) \/ Remote({"A"}, Frames) \/ Fault({"A"})

Spec == Init /\ [][Next]_vars

\* BackoffSpec: repeated negotiation failures of A; the handler keeps
\* being polled and armed timers reach their deadline
InitBackoff ==
    /\ new
    /\ InitEnv
    /\ budget = [NoBudget EXCEPT !.faults = Only("A", MaxFailures)]

NextBackoff == \/ Negotiate({"A"}) \/ DialError({"A"}) \/ Timer({"A"})
               \/ Poll({"A"})

BackoffSpec == /\ InitBackoff /\ [][NextBackoff]_vars
               /\ WF_vars(PollOf("A"))
               /\ WF_vars(Timer({"A"}))

\* ReportSpec: negotiations of A fail and succeed while A sends and
\* receives; A keeps being polled
InitReport ==
    /\ new
    /\ InitEnv
    /\ budget = [NoBudget EXCEPT !.sends = Only("A", MaxSends),
                                 !.faults = Only("A", MaxFaults)]

NextReport == \/ Negotiate({"A"}) \/ DialError({"A"}) \/ Send({"A"})
              \/ Poll({"A"})
              \/ Remote({"A"}, {to_vec([to |-> "A", timestamp |-> 1,
                                        text |-> "hi"])})

ReportSpec == /\ InitReport /\ [][NextReport]_vars
              /\ WF_vars(PollOf("A"))

\* HealthySpec: A sends to B over a stream without transport faults; both
\* handlers keep being polled
InitHealthy ==
    /\ new
    /\ InitEnv
    /\ budget = [NoBudget EXCEPT !.sends = Only("A", MaxSends)]

NextHealthy == \/ Negotiate(Peers) \/ Send({"A"}) \/ Poll(Peers)

\* a poll call in which the stream accepts a write, completes a send or
\* yields a frame: on a healthy transport the waker passed to the futures
\* brings such a call about whenever one is possible
PollProgress(p) ==
    PollOf(p) /\ <<hvars, evars, cvars>>' # <<hvars, evars, cvars>>

HealthySpec == /\ InitHealthy /\ [][NextHealthy]_vars
               /\ \A p \in Peers : WF_vars(PollProgress(p))

\* WriteFailSpec: A sends while the substream it writes to may be closed by
\* the remote end, after which every write of A fails
InitWriteFail ==
    /\ new
    /\ InitEnv
    /\ budget = [NoBudget EXCEPT !.sends = Only("A", MaxSends),
                                 !.faults = Only("B", MaxFaults)]

WriteFault == StreamEnd("B") /\ UNCHANGED <<bvars, rvars>>

NextWriteFail == \/ Negotiate({"A"}) \/ Send({"A"}) \/ Poll({"A"})
                 \/ WriteFault

WriteFailSpec == InitWriteFail /\ [][NextWriteFail]_vars

\* ParseSpec: the remote end writes malformed and well-formed frames to B
\* in any order; B keeps being polled
InitParse ==
    /\ new
    /\ InitEnv
    /\ budget = [NoBudget EXCEPT !.faults = Only("B", MaxFrames)]

FramesToB == Garbage \cup { to_vec(m) : m \in { x \in PlainTextMessage :
                                                    x.to = "B" /\ x.text = "hi" } }

NextParse == \/ Negotiate({"B"}) \/ Poll({"B"}) \/ Remote({"B"}, FramesToB)

ParseSpec == /\ InitParse /\ [][NextParse]_vars
             /\ WF_vars(PollProgress("B"))

\* the operations of the bridge
StartNetwork == /\ \E name \in NameBuffers : \E secret_ok, swarm_ok \in BOOLEAN :
                      start_network(name, secret_ok, swarm_ok)
                /\ UNCHANGED rvars
SendMessage == /\ \E c \in Callers :
                    \/ \E to_peer_id \in PeerIdBuffers :
                       \E message \in TextBuffers : \E timestamp \in Timestamps :
                          send_message_get(c, to_peer_id, message, timestamp)
                    \/ send_message_lock(c)
                    \/ send_message_locked(c)
               /\ UNCHANGED rvars
LoopQuiet == /\ \/ loop_out_events
                \/ loop_in_events
                \/ loop_swarm(<<>>)
                \/ loop_swarm_finished
                \/ loop_wake
             /\ UNCHANGED rvars
LoopEvent == /\ \E tag \in EventTags : \E ser \in BOOLEAN :
                   loop_swarm(<<OutEvent(tag, arrived + 1, ser)>>)
             /\ UNCHANGED rvars

\* BridgeSpec: host threads calling send_message with arbitrary buffers,
\* the command channel and the spawned task
InitBridge ==
    /\ new
    /\ InitEnv
    /\ budget = [NoBudget EXCEPT !.calls = Only(Local, MaxOdd + 1),
                                 !.odd = Only(Local, MaxOdd)]

NextBridge == StartNetwork \/ SendMessage \/ LoopQuiet

BridgeSpec == InitBridge /\ [][NextBridge]_vars

\* MemorySpec: the host calls start_network and send_message with arbitrary
\* buffers and, as the comment on free_array tells it to, passes the
\* secret_array of a start_network call that has returned to free_array
FreeArray == /\ heap.host = "passed"
             /\ free_array("secret_array")
             /\ UNCHANGED rvars

InitMemory ==
    /\ new
    /\ InitEnv
    /\ budget = [NoBudget EXCEPT !.calls = Only(Local, MaxOdd),
                                 !.odd = Only(Local, MaxOdd)]

NextMemory == StartNetwork \/ SendMessage \/ LoopQuiet \/ FreeArray

MemorySpec == InitMemory /\ [][NextMemory]_vars

\* RingSpec: ring vectors of every size up to MaxSize are created, pushed
\* to and read
RingNew == \E size \in 0..MaxSize :
              /\ ring' = RingVec_new(size)
              /\ pushed' = <<>>
              /\ ret' = NoRet
              /\ UNCHANGED <<hvars, evars, cvars, budget, bvars>>
RingPush == \E elem \in Elements :
               /\ ~ ring.panicked
               /\ Len(pushed) < MaxPushes
               /\ ring' = push(ring, elem)
               /\ pushed' = Append(pushed, elem)
               /\ ret' = NoRet
               /\ UNCHANGED <<hvars, evars, cvars, budget, bvars>>
RingGet == \E pos \in 0..MaxPushes :
              /\ ~ ring.panicked
              /\ ret' = Returned("ring", [kind |-> "get", id |-> pos,
                                          msg |-> get(ring, pos), err |-> ""])
              /\ UNCHANGED <<hvars, evars, cvars, budget, bvars, rvars>>

NextRing == RingNew \/ RingPush \/ RingGet

InitRing ==
    /\ new
    /\ InitEnv
    /\ budget = NoBudget

RingSpec == InitRing /\ [][NextRing]_vars

\* FloodSpec: host threads make enough calls to fill the command channel
InitFlood ==
    /\ new
    /\ InitEnv
    /\ budget = [NoBudget EXCEPT !.calls = Only(Local, MaxCalls)]

FloodSpec == InitFlood /\ [][NextBridge]_vars

\* EventSpec: the swarm puts events on the outward stream
InitEvent ==
    /\ new
    /\ InitEnv
    /\ budget = [NoBudget EXCEPT !.calls = Only(Local, 1),
                                 !.events = Only(Local, MaxEvents)]

NextEvent == StartNetwork \/ SendMessage \/ LoopQuiet \/ LoopEvent

EventSpec == InitEvent /\ [][NextEvent]_vars

(***************************************************************************)
(* Properties                                                              *)
(***************************************************************************)
RECURSIVE Pow2(_)
Pow2(k) == IF k = 0 THEN 1 ELSE 2 * Pow2(k - 1)

\* number of failures after which the doubled delay first exceeds MAX_RETRY
BackoffCycle == CHOOSE n \in 1..16 : Pow2(n) > MAX_RETRY /\ Pow2(n - 1) <= MAX_RETRY

Armed(p) == retry[p] # None

\* C3: after the k-th negotiation failure of a handler the armed delay is
\* 1, 2, 4, 8, ... (doubling per failure) and the stored delay is its double;
\* neither ever exceeds 120; at the failure whose doubled delay would exceed
\* 120 the timer is cleared and the stored delay is 1 again, so the failure
\* after that arms 1.
C3_BackoffSequence ==
    \A p \in Peers :
        LET j == nfail[p] % BackoffCycle IN
        /\ retry_value[p] <= MAX_RETRY
        /\ Armed(p) => retry[p][1].delay <= MAX_RETRY
        /\ IF j = 0
           THEN ~ Armed(p) /\ retry_value[p] = INITIAL_RETRY
           ELSE /\ Armed(p)
                /\ retry[p][1].delay = Pow2(j - 1)
                /\ retry_value[p] = Pow2(j)

\* C3 witness: the sequence has wrapped: the failure after the reset armed 1
C3_Witness ==
    /\ nfail["A"] = BackoffCycle + 1
    /\ Armed("A") /\ retry["A"][1].delay = INITIAL_RETRY

\* C4: a handler whose armed retry timer has reached its deadline is
\* eventually polled into a new outbound negotiation attempt.
C4_RetryIssuesNegotiation ==
    \A p \in Peers :
        (Armed(p) /\ retry[p][1].fired)
            ~> (ret.who = p /\ ret.event.kind = "OutboundSubstreamRequest")

InQueue(p, m) ==
    \E i \in DOMAIN pending_sending_messages[p] :
        pending_sending_messages[p][i] = m
OnWire(p, item) == \E i \in DOMAIN wire[p] : wire[p][i] = item
Joined == stream["A"] /\ stream["B"]
ToB == { m \in PlainTextMessage : m.to = "B" }

\* the frame of the in-flight send t of p has been handed to the stream in
\* this step or before it
Written(p, t) ==
    \/ outgoing_messages[p][t].st = "fed"
    \/ \E i \in (Len(wire[Other(p)]) + 1)..Len(wire[Other(p)]') :
          wire[Other(p)]'[i] = OkItem(to_vec(outgoing_messages[p][t].msg))

\* C1 as stated: over an open stream every message passed to A's send is
\* eventually emitted by B's poll as ReceivedPlainTextMessage with the same
\* fields, and A's poll eventually emits Sent for its timestamp.
C1_EveryMessageDelivered ==
    \A m \in ToB :
        (Joined /\ InQueue("A", m))
            ~> (ret = Returned("B", ReceivedPlainTextMessage(m)))

\* C1 amended: the same, for a message whose in-flight entry is not
\* overwritten by another send with the same timestamp; Sent(t) is emitted
\* at most once per send that was not overwritten, and only in the poll call
\* in which the send future for t completes, after its frame was written.
C1_DeliveredUnlessOverwritten ==
    /\ \A m \in ToB :
          (Joined /\ InQueue("A", m))
              ~> (\/ ret = Returned("B", ReceivedPlainTextMessage(m))
                  \/ overwritten["A"][m.timestamp] > 0)
    /\ \A m \in ToB :
          (Joined /\ InQueue("A", m))
              ~> (nsent["A"][m.timestamp] > 0 \/ overwritten["A"][m.timestamp] > 0)
    /\ [](\A t \in Timestamps :
            nsent["A"][t] + overwritten["A"][t] <= nsends["A"][t])
    /\ [][\A t \in Timestamps :
            nsent["A"][t]' # nsent["A"][t] =>
               /\ nsent["A"][t]' = nsent["A"][t] + 1
               /\ ret' = Returned("A", SentPlainTextMessage(t))
               /\ t \in DOMAIN outgoing_messages["A"]
               /\ t \notin DOMAIN outgoing_messages["A"]'
               /\ Written("A", t)]_vars

\* C1 witness: B has just emitted the message A sent, and A has emitted Sent
C1_Witness ==
    /\ ret = Returned("B", ReceivedPlainTextMessage(
                 [to |-> "B", timestamp |-> 1, text |-> "hi"]))
    /\ nsent["A"][1] = 1 /\ nsends["A"][1] = 1

\* the event a handler emits for the frame payload `bytes`
EventFor(bytes) ==
    IF WellFormed(bytes)
    THEN ReceivedPlainTextMessage(
            [to |-> bytes[3], timestamp |-> bytes[8], text |-> bytes[6]])
    ELSE ErrorEvent("Parse")

\* C5: a poll call that reads a frame takes exactly the oldest frame, emits
\* Error(Parse) if its payload is malformed and ReceivedPlainTextMessage with
\* its fields otherwise, and leaves the stream open; every well-formed frame
\* on the wire of an open stream is eventually emitted, whatever malformed
\* frames surround it.
C5_ParseErrorRecoverable ==
    /\ [][\A p \in Peers :
            wire[p]' # wire[p] /\ Len(wire[p]') <= Len(wire[p]) =>
               /\ wire[p]' = Tail(wire[p])
               /\ stream[p]'
               /\ ret' = Returned(p, EventFor(Head(wire[p]).bytes))]_vars
    /\ \A m \in PlainTextMessage :
          (stream["B"] /\ OnWire("B", OkItem(to_vec(m))))
              ~> (ret = Returned("B", ReceivedPlainTextMessage(m)))

\* C5 witness: B has just emitted Error(Parse) for a malformed frame, its
\* stream is open and a well-formed frame is waiting behind it
C5_Witness ==
    /\ ret = Returned("B", ErrorEvent("Parse"))
    /\ stream["B"]
    /\ wire["B"] # <<>> /\ WellFormed(Head(wire["B"]).bytes)

\* what one poll call of p consumed
PoppedError(p) == errors[p]' # errors[p]
Completed(p) == DOMAIN outgoing_messages[p] \ DOMAIN outgoing_messages[p]'
ReadFrame(p) == wire[p]' # wire[p]
QueuedIds(p) == { pending_sending_messages[p][i].timestamp :
                     i \in DOMAIN pending_sending_messages[p] }
Drained(p) ==
    /\ pending_sending_messages[p]' = <<>>
    /\ QueuedIds(p) \subseteq DOMAIN outgoing_messages[p]'

\* C2: one poll call serves pending errors before completed sends, completed
\* sends before starting queued sends, and queued sends before reading a
\* frame; it returns one event, taken from the first source that yields one,
\* and does not run the steps behind that source.
C2_FixedPriority ==
    [][\A p \in Peers : ret'.who = p =>
         /\ errors[p] # <<>> =>
               /\ ret' = Returned(p, ErrorEvent("Unreachable"))
               /\ errors[p]' = Front(errors[p])
               /\ UNCHANGED <<outgoing_messages, pending_sending_messages,
                              wire, nsent>>
         /\ Completed(p) # {} =>
               /\ \E t \in Completed(p) :
                     /\ Completed(p) = {t}
                     /\ ret' = Returned(p, SentPlainTextMessage(t))
               /\ ~ PoppedError(p)
               /\ pending_sending_messages[p]' = pending_sending_messages[p]
               /\ DOMAIN outgoing_messages[p]' \subseteq DOMAIN outgoing_messages[p]
               /\ ~ ReadFrame(p)
         /\ ret'.event.kind = "Sent" => Completed(p) = {ret'.event.id}
         /\ ReadFrame(p) =>
               /\ wire[p]' = Tail(wire[p])
               /\ ret'.event.kind \in {"Received", "Error"}
               /\ ~ PoppedError(p)
               /\ Drained(p)
         /\ pending_sending_messages[p]' # pending_sending_messages[p] =>
               Drained(p) /\ Completed(p) = {} /\ ~ PoppedError(p)
         /\ ret'.event.kind = "Pending" <=>
               ~ (PoppedError(p) \/ Completed(p) # {} \/ ReadFrame(p))]_vars

\* C2 witness: poll has returned Sent while a queued message and an inbound
\* frame were waiting, and both are still waiting
C2_Witness ==
    /\ ret = Returned("A", SentPlainTextMessage(1))
    /\ pending_sending_messages["A"] # <<>>
    /\ wire["A"] # <<>>

\* the last message with timestamp t in the pending queue of p
LastQueued(p, t) ==
    LET I == { i \in DOMAIN pending_sending_messages[p] :
                  pending_sending_messages[p][i].timestamp = t } IN
    pending_sending_messages[p][CHOOSE i \in I : \A j \in I : j <= i]

InFlight(p, t) == IF t \in DOMAIN outgoing_messages[p] THEN 1 ELSE 0
Queued(p, t) == Cardinality({ i \in DOMAIN pending_sending_messages[p] :
                                 pending_sending_messages[p][i].timestamp = t })

\* C6: a send that is moved in flight while a send with the same timestamp is
\* in flight replaces it: the map entry is the future of the message queued
\* last, no error is recorded, and every send is queued, in flight, completed
\* with one Sent or overwritten, so two colliding sends give at most one Sent;
\* without a repeated timestamp nothing is overwritten.
C6_CollisionOverwrites ==
    /\ [](\A p \in Peers : \A t \in Timestamps :
            /\ nsends[p][t] = Queued(p, t) + InFlight(p, t) + nsent[p][t]
                                 + overwritten[p][t]
            /\ overwritten[p][t] > 0 => nsends[p][t] > 1)
    /\ [][\A p \in Peers : \A t \in Timestamps :
            /\ (ret'.who = p /\ t \in QueuedIds(p)
                   /\ pending_sending_messages[p]' = <<>>) =>
                  /\ outgoing_messages[p]'[t] = SendFuture(LastQueued(p, t))
                  /\ overwritten[p][t]' = overwritten[p][t] + Queued(p, t)
                         - (IF t \in DOMAIN outgoing_messages[p] THEN 0 ELSE 1)
            /\ overwritten[p][t]' # overwritten[p][t] =>
                  /\ errors[p]' = errors[p]
                  /\ ret' # Returned(p, ErrorEvent("Unreachable"))]_vars

\* C6 witness: two sends with timestamp 1, the second moved in flight while
\* the first was in flight, and a single Sent(1) after both
C6_Witness ==
    /\ nsends["A"][1] = 2 /\ overwritten["A"][1] = 1 /\ nsent["A"][1] = 1
    /\ Queued("A", 1) = 0 /\ InFlight("A", 1) = 0

\* the tickets of the calls whose message is on the command channel
ChannelTickets == [i \in DOMAIN in_events |-> in_events[i].ticket]
Increasing(seq) == \A i, j \in DOMAIN seq : i < j => seq[i] < seq[j]
Elems(seq) == { seq[i] : i \in DOMAIN seq }
\* the call of c leaves the critical section in this step
Returns(c) == callers[c].pc = "locked" /\ callers[c]'.pc = "idle"
BadBuffers(c) == \/ try_into_string(callers[c].to_peer_id) = None
                 \/ try_into_string(callers[c].message) = None
Called == budget.calls[Local]' < budget.calls[Local]
Untouched == UNCHANGED <<in_events, out_events, callback_log, forwarded,
                         pending_sending_messages, mutex, callers>>

\* C7: a send_message call made while no command channel is installed, or
\* with a peer-id or text buffer that does not convert, returns false and
\* leaves the command channel, the callback log and the handler queue as
\* they are; the call is never on the channel nor forwarded later.
C7_RejectedCallHasNoEffect ==
    /\ [][/\ (Called /\ ~ EVENTS_SENDER) =>
               /\ ret'.who \in Callers /\ ret'.event = BoolRet(FALSE)
               /\ Untouched
          /\ \A c \in Callers : (Returns(c) /\ BadBuffers(c)) =>
               /\ ret' = Returned(c, BoolRet(FALSE))
               /\ UNCHANGED <<in_events, out_events, callback_log, forwarded,
                              pending_sending_messages>>
               /\ callers[c].ticket \in rejected']_vars
    /\ [](/\ rejected \cap (Elems(ChannelTickets) \cup Elems(forwarded)) = {}
          /\ Len(pending_sending_messages[Local]) = Len(forwarded)
          /\ ~ EVENTS_SENDER => in_events = <<>> /\ forwarded = <<>>)

\* C7 witness: a call with a buffer that does not convert has returned false
\* while an accepted message was waiting on the channel
C7_Witness ==
    /\ \E c \in Callers : ret = Returned(c, BoolRet(FALSE))
    /\ rejected # {}
    /\ in_events # <<>>

\* the message a call with convertible buffers sends
MessageOf(c) == [msg |-> [to |-> try_into_string(callers[c].to_peer_id)[1],
                          timestamp |-> callers[c].timestamp,
                          text |-> try_into_string(callers[c].message)[1]],
                 ticket |-> callers[c].ticket]

\* C8 as stated: a call with convertible buffers returns true, and when the
\* channel holds CHANNEL_BUFFER_SIZE messages the message is not enqueued
\* and the channel is unchanged.
C8_FullAtBufferSize ==
    [][\A c \in Callers : (Returns(c) /\ ~ BadBuffers(c)) =>
          /\ ret' = Returned(c, BoolRet(TRUE))
          /\ Len(in_events) >= CHANNEL_BUFFER_SIZE => in_events' = in_events]_vars

\* C8 amended: a call with convertible buffers returns true; the channel
\* takes CHANNEL_BUFFER_SIZE messages plus one for its sender; when it holds
\* that many the message is not enqueued, the channel is unchanged, the call
\* returns all the same and the message is never forwarded to the handler.
C8_FullAtBufferPlusSender ==
    /\ [][\A c \in Callers : (Returns(c) /\ ~ BadBuffers(c)) =>
            /\ ret' = Returned(c, BoolRet(TRUE))
            /\ IF Len(in_events) >= CHANNEL_BUFFER_SIZE + NumSenders
               THEN /\ in_events' = in_events
                    /\ callers[c].ticket \in dropped'
                    /\ UNCHANGED <<forwarded, pending_sending_messages>>
               ELSE /\ in_events' = Append(in_events, MessageOf(c))
                    /\ dropped' = dropped]_vars
    /\ [](/\ Len(in_events) <= CHANNEL_BUFFER_SIZE + NumSenders
          /\ dropped \cap (Elems(ChannelTickets) \cup Elems(forwarded)) = {}
          /\ \A c \in Callers :
                callers[c].pc = "locked" => ENABLED send_message_locked(c))

\* C8 witness: a call has returned true although the full channel did not
\* take its message
C8_Witness ==
    /\ \E c \in Callers : ret = Returned(c, BoolRet(TRUE))
    /\ dropped # {}
    /\ Len(in_events) = CHANNEL_BUFFER_SIZE + NumSenders

C10_ConcurrentSendSafe ==
    [](/\ Cardinality({ c \in Callers : callers[c].pc = "locked" }) <= 1
       /\ \A c \in Callers : mutex = c <=> callers[c].pc = "locked"
       /\ \A c \in Callers :
             callers[c].pc = "locked" => ENABLED send_message_locked(c)
       /\ \A c \in Callers :
             callers[c].pc = "lock" =>
                \/ ENABLED send_message_lock(c)
                \/ \E d \in Callers : ENABLED send_message_locked(d)
       /\ Increasing(forwarded \o ChannelTickets)
       /\ Elems(forwarded \o ChannelTickets) =
             (1..tickets) \ (rejected \cup dropped
                             \cup { callers[c].ticket : c \in Callers })
       /\ Len(pending_sending_messages[Local]) = Len(forwarded))

\* C10 witness: one caller is inside the critical section, another waits
\* for the lock, and an earlier message has been forwarded to the handler
C10_Witness ==
    /\ callers["t1"].pc = "locked" /\ callers["t2"].pc = "lock"
    /\ forwarded # <<>>

\* C11: the storage of every ByteArray argument is released at most once,
\* also when the host passes the secret_array of a returned start_network
\* call to free_array.
C11_ReleasedAtMostOnce ==
    /\ heap.secret_array <= 1
    /\ heap.name <= 1
    /\ \A c \in Callers : heap.to_peer_id[c] <= 1 /\ heap.message[c] <= 1
    /\ ~ heap.damaged

\* C12: for a ring vector of size at least 1, whenever get(i) is present it
\* is the i-th element passed to push, also after wrap-around.
C12_GetReturnsPushed ==
    (ring.size >= 1 /\ ~ ring.panicked) =>
        \A i \in 0..MaxPushes :
            get(ring, i) # None => get(ring, i) = Some(pushed[i + 1])

\* C13: for every size, after M pushes get(i) is present exactly for
\* M - size <= i < M, no push or get panics, and pos is M.
C13_WindowAndNoPanic ==
    /\ ~ ring.panicked
    /\ ring.pos = Len(pushed)
    /\ \A i \in 0..MaxPushes :
          /\ get(ring, i) # <<"panic">>
          /\ get(ring, i) # None <=> (Len(pushed) - ring.size <= i /\ i < Len(pushed))

Unreachable(p) == Returned(p, ErrorEvent("Unreachable"))

\* C14: a dial-upgrade failure queues one error; a poll call with a queued
\* error, with or without a stream, removes the oldest one and returns
\* Error(Unreachable) instead of any other event; Error(Unreachable) is
\* returned only so; hence the events emitted so far number the failures
\* minus the queued errors, and under repeated polling the queue empties.
C14_OneUnreachablePerFailure ==
    /\ [][\A p \in Peers :
            /\ nfail[p]' # nfail[p] =>
                  /\ nfail[p]' = nfail[p] + 1
                  /\ errors[p]' = <<"Unreachable">> \o errors[p]
            /\ (ret'.who = p /\ errors[p] # <<>>) =>
                  /\ ret' = Unreachable(p)
                  /\ errors[p]' = Front(errors[p])
                  /\ Len(errors[p]') = Len(errors[p]) - 1
            /\ ret' = Unreachable(p) => Len(errors[p]') = Len(errors[p]) - 1
            /\ Len(errors[p]') < Len(errors[p]) => ret' = Unreachable(p)]_vars
    /\ [](\A p \in Peers : Len(errors[p]) <= nfail[p])
    /\ \A p \in Peers : (errors[p] # <<>>) ~> (errors[p] = <<>>)

\* C14 witness: with a stream open and sends in flight, poll has returned
\* Error(Unreachable) for the first of two failures
C14_Witness ==
    /\ ret = Unreachable("A")
    /\ stream["A"] /\ outgoing_messages["A"] # <<>>
    /\ nfail["A"] = 2 /\ Len(errors["A"]) = 1

\* C15: once poll has seen the inbound stream report its end, no later poll
\* call returns an event, whatever is sent afterwards (polls that only
\* report an earlier negotiation failure are left aside).
C15_ClosedIsSilent ==
    [][\A p \in Peers :
          (closed[p] /\ errors[p] = <<>> /\ ret'.who = p) =>
              ret'.event = Pending]_vars

\* what a completed negotiation of p does to a handler, and nothing more
NegotiatedEffect(p) ==
    /\ stream' = [stream EXCEPT ![p] = TRUE]
    /\ pending_metadata[p]' # None
    /\ \A q \in Peers \ {p} : pending_metadata[q]' = pending_metadata[q]
    /\ UNCHANGED <<pending_sending_messages, outgoing_messages, errors,
                   retry, retry_value, wire, ended, broken, closed, nsends,
                   nsent, overwritten, nfail>>

\* C16: the stream is absent initially; it becomes present only by a
\* completed negotiation, which sets the stream and the peer's metadata and
\* changes nothing else, the same for inbound and outbound; every
\* dial-upgrade failure leaves it absent and nothing else removes it.
C16_StreamPresence ==
    /\ \A p \in Peers : ~ stream[p]
    /\ [](\A p \in Peers : stream[p] => pending_metadata[p] # None)
    /\ [][\A p \in Peers :
            /\ (stream[p]' /\ ~ stream[p]) => NegotiatedEffect(p)
            /\ pending_metadata[p]' # pending_metadata[p] => NegotiatedEffect(p)
            /\ nfail[p]' # nfail[p] => ~ stream[p]'
            /\ (stream[p] /\ ~ stream[p]') => nfail[p]' = nfail[p] + 1
            /\ inject_fully_negotiated_inbound(p)
                  <=> inject_fully_negotiated_outbound(p)]_vars

\* C16 witness: a handler that had negotiated a stream is without one after
\* a dial-upgrade failure, with the failure still to be reported
C16_Witness ==
    /\ ~ stream["A"] /\ pending_metadata["A"] # None
    /\ nfail["A"] = 1 /\ errors["A"] # <<>>

\* the event for the item `item` read from the stream
EventOfItem(item) ==
    IF item.ok THEN EventFor(item.bytes) ELSE ErrorEvent("Network")

\* C17: a poll call that reads a malformed frame returns Error(Parse), one
\* that reads an io error returns Error(Network), and these events are
\* returned only so; such a call leaves the stream present, removes no
\* in-flight entry and leaves the error queue and the backoff state as they
\* are; the frame behind the failed one is the next to be read.
C17_ReadErrorsKeepState ==
    [][\A p \in Peers :
          /\ (ret'.who = p /\ wire[p]' # wire[p]) =>
                /\ ret'.event = EventOfItem(Head(wire[p]))
                /\ wire[p]' = Tail(wire[p])
          /\ (ret'.who = p /\ ret'.event \in {ErrorEvent("Parse"),
                                              ErrorEvent("Network")}) =>
                /\ wire[p] # <<>> /\ wire[p]' = Tail(wire[p])
                /\ ret'.event = EventOfItem(Head(wire[p]))
                /\ stream[p] /\ stream[p]'
                /\ DOMAIN outgoing_messages[p] \subseteq
                      DOMAIN outgoing_messages[p]'
                /\ UNCHANGED <<errors, retry, retry_value, pending_metadata,
                               nfail, closed>>]_vars

\* C17 witness: poll has returned Error(Network) with a send in flight and
\* a frame waiting behind the failed read
C17_Witness ==
    /\ ret = Returned("A", ErrorEvent("Network"))
    /\ stream["A"] /\ outgoing_messages["A"] # <<>>
    /\ wire["A"] # <<>>

\* C18: the task ends only in step (c), which is reached only through the
\* drains (a) and (b) of the same turn, each left only when its source has
\* nothing ready; step (c) either ends the task (the swarm stream has
\* ended) or returns Pending; a pending task can always be woken and then
\* starts at (a); a task that has ended never runs again.
C18_LoopEndsOnlyWithSwarm ==
    /\ [][/\ loop' # loop =>
                \/ loop = "none" /\ loop' = "a"
                \/ loop = "a" /\ loop' = "b" /\ out_events = <<>>
                \/ loop = "b" /\ loop' = "c" /\ in_events = <<>>
                \/ loop = "c" /\ loop' \in {"pending", "done"}
                \/ loop = "pending" /\ loop' = "a"
          /\ Len(out_events') < Len(out_events) => loop = "a" /\ loop' = "a"
          /\ forwarded' # forwarded => loop = "b" /\ loop' = "b"
          /\ loop = "done" => UNCHANGED <<loop, out_events, callback_log,
                                          forwarded, arrived>>
          /\ (loop' = "done" /\ loop # "done") =>
                UNCHANGED <<in_events, out_events, callback_log,
                            forwarded>>]_vars
    /\ [](/\ loop = "pending" => ENABLED loop_wake
          /\ loop \in {"c", "done"} => out_events = <<>>)

\* C18 witness: the task has ended after turns in which the callback was
\* invoked and a command was forwarded
C18_Witness ==
    /\ loop = "done"
    /\ callback_log # <<>> /\ forwarded # <<>>

\* every timestamp was passed to send of p at most once
DistinctIds(p) == \A t \in Timestamps : nsends[p][t] <= 1

\* C19: while the ids passed to send are pairwise distinct, every message
\* sent is either queued, in flight or reported by one Sent, and nothing is
\* overwritten; send appends its message to the queue and does nothing
\* else; a poll call without a stream leaves queue, map and stream untouched;
\* a poll call with a stream and without a pending error that returns no
\* Sent empties the queue and holds a new send future for each queued
\* message; the queue changes in no other way.
C19_MessageConservation ==
    /\ [](\A p \in Peers : DistinctIds(p) =>
            \A t \in Timestamps :
               /\ nsends[p][t] = Queued(p, t) + InFlight(p, t) + nsent[p][t]
               /\ overwritten[p][t] = 0)
    /\ [][\A p \in Peers :
            /\ nsends[p]' # nsends[p] =>
                  /\ \E m \in PlainTextMessage :
                        /\ pending_sending_messages[p]' =
                              Append(pending_sending_messages[p], m)
                        /\ nsends[p]' =
                              [nsends[p] EXCEPT ![m.timestamp] = @ + 1]
                  /\ UNCHANGED <<stream, outgoing_messages, wire, errors,
                                 nsent, overwritten>>
            /\ (ret'.who = p /\ ~ stream[p]) =>
                  UNCHANGED <<pending_sending_messages, outgoing_messages,
                              wire, nsent, stream>>
            /\ (ret'.who = p /\ stream[p] /\ errors[p] = <<>>
                   /\ ret'.event.kind # "Sent") =>
                  /\ pending_sending_messages[p]' = <<>>
                  /\ \A t \in QueuedIds(p) :
                        outgoing_messages[p]'[t] = SendFuture(LastQueued(p, t))
            /\ pending_sending_messages[p]' # pending_sending_messages[p] =>
                  \/ nsends[p]' # nsends[p]
                  \/ /\ ret'.who = p /\ stream[p]
                     /\ pending_sending_messages[p]' = <<>>]_vars

\* C19 witness: with distinct ids, one message was reported Sent and
\* another, sent after the stream was lost, is still queued
C19_Witness ==
    /\ DistinctIds("A")
    /\ nsent["A"][1] = 1 /\ Queued("A", 2) = 1
    /\ ~ stream["A"] /\ ret.who = "A"

\* a poll call of p that returns Sent(t)
SentStep(p, t) == PollOf(p) /\ ret' = Returned(p, SentPlainTextMessage(t))

\* C20: a send future that completes is removed and reported by Sent(id)
\* whether it completed with Ok or with an io error: a poll call returning
\* Sent(t) is possible for every in-flight send, also when the writes of
\* the handler fail; an entry leaves the in-flight map only together with
\* its Sent, which removes that entry alone; a Sent returned on a failed stream writes nothing, records no
\* error and queues nothing again; no poll call returns an Error event.
C20_SentOnOkAndErr ==
    /\ [](\A t \in DOMAIN outgoing_messages["A"] :
            (stream["A"] /\ errors["A"] = <<>>) => ENABLED SentStep("A", t))
    /\ [](ret.event.kind # "Error" /\ errors["A"] = <<>>)
    /\ [][\A t \in Timestamps :
            /\ (t \in DOMAIN outgoing_messages["A"]
                  /\ t \notin DOMAIN outgoing_messages["A"]') =>
                  ret' = Returned("A", SentPlainTextMessage(t))
            /\ ret' = Returned("A", SentPlainTextMessage(t)) =>
                  /\ t \in DOMAIN outgoing_messages["A"]
                  /\ DOMAIN outgoing_messages["A"]' =
                        DOMAIN outgoing_messages["A"] \ {t}
                  /\ \A u \in DOMAIN outgoing_messages["A"]' :
                        outgoing_messages["A"]'[u].msg =
                           outgoing_messages["A"][u].msg
                  /\ UNCHANGED <<pending_sending_messages, errors, stream,
                                 retry, retry_value>>
                  /\ broken["A"] => UNCHANGED wire]_vars

\* C20 witness: A's only message was reported Sent although the stream had
\* failed before anything was written
C20_Witness ==
    /\ ret = Returned("A", SentPlainTextMessage(1))
    /\ broken["A"] /\ wire["B"] = <<>>
    /\ nsends["A"] = [t \in Timestamps |-> IF t = 1 THEN 1 ELSE 0]
    /\ outgoing_messages["A"] = <<>> /\ pending_sending_messages["A"] = <<>>

\* C21: a completed negotiation leaves the retry timer and the stored delay
\* as they are, so a handler with a stream still holds the delay its
\* failures have reached; the stored delay changes only in a step that
\* counts a negotiation failure, and that step arms the delay stored before
\* it (or clears the timer when the doubled delay would exceed 120).
C21_SuccessKeepsBackoff ==
    /\ [](\A p \in Peers :
            stream[p] => retry_value[p] = Pow2(nfail[p] % BackoffCycle))
    /\ [][\A p \in Peers :
            /\ (stream[p]' /\ ~ stream[p]) =>
                  /\ retry[p]' = retry[p]
                  /\ retry_value[p]' = retry_value[p]
            /\ (pending_metadata[p]' # pending_metadata[p]) =>
                  /\ retry[p]' = retry[p]
                  /\ retry_value[p]' = retry_value[p]
            /\ retry_value[p]' # retry_value[p] => nfail[p]' = nfail[p] + 1
            /\ nfail[p]' # nfail[p] =>
                  /\ retry[p]' = IF retry_value[p] * RETRY_EXP > MAX_RETRY
                                 THEN None
                                 ELSE Some(Delay(retry_value[p]))
                  /\ retry_value[p]' =
                        IF retry_value[p] * RETRY_EXP > MAX_RETRY
                        THEN INITIAL_RETRY
                        ELSE retry_value[p] * RETRY_EXP]_vars

\* C21 witness: a negotiation has completed after two failures (a failure
\* removes the stream) and the timer armed with 2 and the stored delay 4
\* are still in place
C21_Witness ==
    /\ stream["A"] /\ nfail["A"] = 2
    /\ Armed("A") /\ retry["A"][1].delay = 2
    /\ retry_value["A"] = 4

====
